---- MODULE Spec2Model ----
(***************************************************************************)
(* Entis: sparse-set component store, entity allocator with an implicit    *)
(* free list, and the Registry that owns one SparseSet per component type. *)
(*                                                                         *)
(* Vectors are 0-based in the source and 1-based here: cell i of a vector  *)
(* v is v[i + 1] (operator At).  An optional is a sequence of length 0 or  *)
(* 1.  The growth routine rezise() writes past the end of the sparse       *)
(* vector; the cells it hits are chosen nondeterministically (Victims).    *)
(***************************************************************************)
EXTENDS Integers, Sequences, FiniteSets, TLC

\* ---------------------------------------------------------------- bounds
IdBits == 3
MaxKey == 2
MaxVal == 2
MaxComp == 1
MaxEntities == 3
MaxOps == 6
MaxList == 3

\* ------------------------------------------------------------- constants
MAX_ID == 2 ^ IdBits - 1
NULL_ID == MAX_ID

Keys == (0 .. MaxKey) \ {MAX_ID}
KeyInputs == Keys \cup {MAX_ID}
Vals == 1 .. MaxVal
Comps == 1 .. MaxComp
Types == {"A", "B", "C"}

\* the value of a component whose cell was overwritten by the overshoot
Garbage == 0 - 1

\* what value() yields when it throws std::bad_optional_access
BadOptionalAccess == 0 - 2

\* ------------------------------------------------------- vector helpers
At(v, i) == v[i + 1]

InRange(v, i) == i >= 0 /\ i < Len(v)

Put(v, i, x) == IF InRange(v, i) THEN [v EXCEPT ![i + 1] = x] ELSE v

pop_back(v) == SubSeq(v, 1, Len(v) - 1)

\* the first n cells of v overwritten by the fill value of rezise
Smash(v, n, x) == [i \in 1 .. Len(v) |-> IF i <= n THEN x ELSE v[i]]

Range(v) == {v[i] : i \in 1 .. Len(v)}

\* ------------------------------------------------- typing (type_list_t)
\* a type_list_t<...> is the sequence of its types
is_empty(List) == List = <<>>

\* front_t: the head; front of type_list_t<> is type_list_t<> itself
front(List) == IF is_empty(List) THEN <<>> ELSE List[1]

push_back(List, NewType) == List \o <<NewType>>

push_front(List, NewType) == <<NewType>> \o List

\* pop_front_t: the tail; the empty list stays empty
pop_front(List) == IF is_empty(List) THEN <<>> ELSE SubSeq(List, 2, Len(List))

\* reverse_t: push_back<reverse<pop_front<List>>, front<List>>; List when empty
RECURSIVE reverse(_)
reverse(List) ==
    IF is_empty(List) THEN List
    ELSE push_back(reverse(pop_front(List)), front(List))

\* pop_back computed as pop_front<reverse<List>> (the last reverse left out)
typing_pop_back_unreversed(List) == pop_front(reverse(List))

\* typing::pop_back = reverse<pop_front<reverse<List>>>
typing_pop_back(List) == reverse(pop_front(reverse(List)))

\* the meta functions add_optional and add_reference_wrapper
MetaFuns == {"add_optional", "add_reference_wrapper"}

\* MetaFun<T>: std::optional<T> or std::reference_wrapper<const T>
Apply(MetaFun, T) == <<MetaFun, T>>

\* transform that appends MetaFun<front> behind the transformed tail
RECURSIVE transform_push_back(_, _)
transform_push_back(List, MetaFun) ==
    IF is_empty(List) THEN List
    ELSE push_back(transform_push_back(pop_front(List), MetaFun),
                   Apply(MetaFun, front(List)))

\* transform_t: push_front<transform<pop_front<List>>, MetaFun<front<List>>>
RECURSIVE transform(_, _)
transform(List, MetaFun) ==
    IF is_empty(List) THEN List
    ELSE push_front(transform(pop_front(List), MetaFun), Apply(MetaFun, front(List)))

\* ------------------------------------------------------------ SparseSet
EmptySet == [sparse |-> <<>>, dense |-> <<>>, data |-> <<>>]

out_of_bounds(s, key) == key >= Len(s.sparse)

is_null_key(key) == key = MAX_ID

has_data(s, key) ==
    IF out_of_bounds(s, key) \/ is_null_key(At(s.sparse, key)) THEN FALSE ELSE TRUE

get_data(s, key) ==
    IF has_data(s, key) THEN <<At(s.data, At(s.sparse, key))>> ELSE <<>>

\* rezise without the fill: resize() value-initialises the new cells to 0
rezise_no_fill(sparse, key) ==
    sparse \o [i \in 1 .. (key + 1 - Len(sparse)) |-> 0]

\* sparse_.resize(key + 1) and the part of std::fill that stays inside the
\* vector: cells from .. key become MAX_ID
rezise(sparse, key) ==
    sparse \o [i \in 1 .. (key + 1 - Len(sparse)) |-> MAX_ID]

\* std::fill runs up to end() + to: the number of cells written past the end
overshoot(sparse, key) ==
    IF key /= MAX_ID /\ key >= Len(sparse) THEN key - Len(sparse) ELSE 0

\* bind without the null-key test
bind_unchecked(s, key, v) ==
    LET s1 == IF out_of_bounds(s, key)
              THEN [s EXCEPT !.sparse = rezise(s.sparse, key)]
              ELSE s
    IN  IF ~has_data(s1, key)
        THEN [set |-> [sparse |-> Put(s1.sparse, key, Len(s1.dense)),
                       dense  |-> Append(s1.dense, key),
                       data   |-> Append(s1.data, v)],
              res |-> "OK"]
        ELSE [set |-> [s1 EXCEPT !.data = Put(s1.data, At(s1.sparse, key), v)],
              res |-> "OK"]

\* bind that appends a new dense cell even when the key already has data
bind_always_appends(s, key, v) ==
    IF is_null_key(key)
    THEN [set |-> s, res |-> "INVALID_KEY"]
    ELSE LET s1 == IF out_of_bounds(s, key)
                   THEN [s EXCEPT !.sparse = rezise(s.sparse, key)]
                   ELSE s
         IN  [set |-> [sparse |-> Put(s1.sparse, key, Len(s1.dense)),
                       dense  |-> Append(s1.dense, key),
                       data   |-> Append(s1.data, v)],
              res |-> "OK"]

bind(s, key, v) ==
    IF is_null_key(key)
    THEN [set |-> s, res |-> "INVALID_KEY"]
    ELSE LET s1 == IF out_of_bounds(s, key)
                   THEN [s EXCEPT !.sparse = rezise(s.sparse, key)]
                   ELSE s
         IN  IF ~has_data(s1, key)
             THEN [set |-> [sparse |-> Put(s1.sparse, key, Len(s1.dense)),
                            dense  |-> Append(s1.dense, key),
                            data   |-> Append(s1.data, v)],
                   res |-> "OK"]
             ELSE [set |-> [s1 EXCEPT !.data = Put(s1.data, At(s1.sparse, key), v)],
                   res |-> "OK"]

\* bind interrupted by std::bad_alloc: the set as the exception leaves it.
\* stage names the vector whose growth throws: sparse_.resize in rezise
\* (nothing written yet), dense_.push_back (sparse_ grown, filled and
\* sparse_[key] assigned) or data_.push_back (dense_ appended as well)
bind_failing(s, key, v, stage) ==
    LET s1 == IF out_of_bounds(s, key)
              THEN [s EXCEPT !.sparse = rezise(s.sparse, key)]
              ELSE s
        s2 == [s1 EXCEPT !.sparse = Put(s1.sparse, key, Len(s1.dense))]
    IN  CASE stage = "sparse" -> s
          [] stage = "dense"  -> s2
          [] OTHER            -> [s2 EXCEPT !.dense = Append(s2.dense, key)]

\* unbind that moves data_.back() into the result before the swap
unbind_before_swap(s, key) ==
    IF ~has_data(s, key)
    THEN [set |-> s, res |-> <<>>, oob |-> FALSE]
    ELSE LET packed_index == At(s.sparse, key)
             n      == Len(s.dense)
             back   == s.dense[n]
             sp1    == Put(s.sparse, back, packed_index)
             sp2    == Put(sp1, key, MAX_ID)
             dn     == Put(s.dense, packed_index, back)
             dt     == Put(s.data, packed_index, s.data[n])
         IN  [set |-> [sparse |-> sp2, dense |-> pop_back(dn), data |-> pop_back(dt)],
              res |-> <<s.data[n]>>,
              oob |-> ~InRange(s.sparse, back)]

\* unbind that pops the packed vectors before testing has_data
unbind_absent_pops(s, key) ==
    IF ~has_data(s, key)
    THEN [set |-> [s EXCEPT !.dense = pop_back(s.dense), !.data = pop_back(s.data)],
          res |-> <<>>, oob |-> FALSE]
    ELSE LET packed_index == At(s.sparse, key)
             n      == Len(s.dense)
             back   == s.dense[n]
             sp1    == Put(s.sparse, back, packed_index)
             sp2    == Put(sp1, key, MAX_ID)
             dn     == Put(s.dense, packed_index, back)
             dt     == Put(s.data, packed_index, s.data[n])
         IN  [set |-> [sparse |-> sp2, dense |-> pop_back(dn), data |-> pop_back(dt)],
              res |-> <<At(s.data, packed_index)>>,
              oob |-> ~InRange(s.sparse, back)]

\* unbind without sparse_[dense_.back()] = packed_index
unbind_no_relink(s, key) ==
    IF ~has_data(s, key)
    THEN [set |-> s, res |-> <<>>, oob |-> FALSE]
    ELSE LET packed_index == At(s.sparse, key)
             n      == Len(s.dense)
             back   == s.dense[n]
             sp2    == Put(s.sparse, key, MAX_ID)
             dn     == Put(s.dense, packed_index, back)
             dt     == Put(s.data, packed_index, s.data[n])
         IN  [set |-> [sparse |-> sp2, dense |-> pop_back(dn), data |-> pop_back(dt)],
              res |-> <<At(s.data, packed_index)>>,
              oob |-> FALSE]

\* unbind that erases the cell and shifts the cells behind it forward
unbind_erase(s, key) ==
    IF ~has_data(s, key)
    THEN [set |-> s, res |-> <<>>, oob |-> FALSE]
    ELSE LET packed_index == At(s.sparse, key)
             dn == SubSeq(s.dense, 1, packed_index)
                       \o SubSeq(s.dense, packed_index + 2, Len(s.dense))
             dt == SubSeq(s.data, 1, packed_index)
                       \o SubSeq(s.data, packed_index + 2, Len(s.data))
             sp == [k \in 1 .. Len(s.sparse) |->
                       IF k - 1 = key THEN MAX_ID
                       ELSE IF s.sparse[k] /= MAX_ID /\ s.sparse[k] > packed_index
                            THEN s.sparse[k] - 1
                            ELSE s.sparse[k]]
         IN  [set |-> [sparse |-> sp, dense |-> dn, data |-> dt],
              res |-> <<At(s.data, packed_index)>>,
              oob |-> FALSE]

\* oob: sparse_[dense_.back()] lies outside the sparse vector (only possible
\* after an earlier overshoot overwrote dense cells with MAX_ID); the write
\* goes MAX_ID cells away from the vector and the process is terminated
unbind(s, key) ==
    IF ~has_data(s, key)
    THEN [set |-> s, res |-> <<>>, oob |-> FALSE]
    ELSE LET packed_index == At(s.sparse, key)
             n      == Len(s.dense)
             back   == s.dense[n]
             sp1    == Put(s.sparse, back, packed_index)
             sp2    == Put(sp1, key, MAX_ID)
             dn     == Put(s.dense, packed_index, back)
             dt     == Put(s.data, packed_index, s.data[n])
         IN  [set |-> [sparse |-> sp2, dense |-> pop_back(dn), data |-> pop_back(dt)],
              res |-> <<At(s.data, packed_index)>>,
              oob |-> ~InRange(s.sparse, back)]

\* what the cells past the end of the sparse vector may belong to
SetVictims == {"none", "fault", "dense", "data"}

Clobber(s, victim, n) ==
    CASE victim = "dense" -> [s EXCEPT !.dense = Smash(s.dense, n, MAX_ID)]
      [] victim = "data"  -> [s EXCEPT !.data = Smash(s.data, n, Garbage)]
      [] OTHER            -> s

\* ------------------------------------------------------------- Registry
is_alive(ents, entity) == entity < Len(ents) /\ At(ents, entity) = entity

\* make_new_entity that reads entities_.size() after the push_back
make_new_entity_size_after(ents) ==
    LET new_entity == (Len(ents) + 1) % (2 ^ IdBits)
    IN  [id |-> new_entity, entities |-> Append(ents, Len(ents) % (2 ^ IdBits))]

\* entities_.size() converted to id_t
make_new_entity(ents) ==
    LET new_entity == Len(ents) % (2 ^ IdBits)
    IN  [id |-> new_entity, entities |-> Append(ents, new_entity)]

\* recycle_entity that leaves current_ on the entity it hands out
recycle_entity_keep_head(ents, cur) ==
    [id |-> cur, current |-> cur, entities |-> Put(ents, cur, cur)]

recycle_entity(ents, cur) ==
    [id |-> cur, current |-> At(ents, cur), entities |-> Put(ents, cur, cur)]

make_entity(ents, cur) ==
    IF cur = MAX_ID
    THEN [id |-> make_new_entity(ents).id, current |-> cur,
          entities |-> make_new_entity(ents).entities]
    ELSE recycle_entity(ents, cur)

\* mark_as_death that moves the head but does not write the link
mark_as_death_no_link(ents, cur, entity) ==
    [entities |-> ents, current |-> entity]

mark_as_death(ents, cur, entity) ==
    [entities |-> Put(ents, entity, cur), current |-> entity]

\* delete_all_components that purges nothing
delete_no_components(cm, entity) ==
    [managers |-> cm, oob |-> FALSE]

\* delete_all_components that returns after the first store
delete_first_store_only(cm, entity) ==
    IF DOMAIN cm = {}
    THEN [managers |-> cm, oob |-> FALSE]
    ELSE LET T0 == CHOOSE T \in DOMAIN cm : TRUE
         IN  [managers |-> [cm EXCEPT ![T0] = unbind(cm[T0], entity).set],
              oob |-> unbind(cm[T0], entity).oob]

delete_all_components(cm, entity) ==
    [managers |-> [T \in DOMAIN cm |-> unbind(cm[T], entity).set],
     oob |-> \E T \in DOMAIN cm : unbind(cm[T], entity).oob]

\* kill_entity that tests only that the id is inside the entity array
kill_entity_bounds_only(ents, cur, cm, entity) ==
    IF entity < Len(ents)
    THEN [entities |-> mark_as_death(ents, cur, entity).entities,
          current  |-> mark_as_death(ents, cur, entity).current,
          managers |-> delete_all_components(cm, entity).managers,
          oob |-> delete_all_components(cm, entity).oob,
          res |-> "killed"]
    ELSE [entities |-> ents, current |-> cur, managers |-> cm, oob |-> FALSE,
          res |-> "ignored"]

\* kill_entity that marks the entity dead and leaves its components bound
kill_entity_keep_components(ents, cur, cm, entity) ==
    IF is_alive(ents, entity)
    THEN [entities |-> mark_as_death(ents, cur, entity).entities,
          current  |-> mark_as_death(ents, cur, entity).current,
          managers |-> cm,
          oob |-> FALSE,
          res |-> "killed"]
    ELSE [entities |-> ents, current |-> cur, managers |-> cm, oob |-> FALSE,
          res |-> "ignored"]

\* kill_entity without the is_alive test (the earlier Registry)
kill_entity_unchecked(ents, cur, cm, entity) ==
    [entities |-> mark_as_death(ents, cur, entity).entities,
     current  |-> mark_as_death(ents, cur, entity).current,
     managers |-> delete_all_components(cm, entity).managers,
     oob |-> delete_all_components(cm, entity).oob,
     res |-> IF is_alive(ents, entity) THEN "killed" ELSE "ignored"]

kill_entity(ents, cur, cm, entity) ==
    IF is_alive(ents, entity)
    THEN [entities |-> mark_as_death(ents, cur, entity).entities,
          current  |-> mark_as_death(ents, cur, entity).current,
          managers |-> delete_all_components(cm, entity).managers,
          oob |-> delete_all_components(cm, entity).oob,
          res |-> "killed"]
    ELSE [entities |-> ents, current |-> cur, managers |-> cm, oob |-> FALSE,
          res |-> "ignored"]

\* an empty sequence is the empty shared_ptr
get_component_manager(cm, T) == IF T \in DOMAIN cm THEN <<cm[T]>> ELSE <<>>

make_component_manager(cm, T) ==
    [U \in DOMAIN cm \cup {T} |-> IF U = T THEN EmptySet ELSE cm[U]]

has_component(cm, T, entity) ==
    IF get_component_manager(cm, T) /= <<>>
    THEN has_data(get_component_manager(cm, T)[1], entity)
    ELSE FALSE

get_component(cm, T, entity) ==
    IF get_component_manager(cm, T) /= <<>>
    THEN get_data(get_component_manager(cm, T)[1], entity)
    ELSE <<>>

\* Registry::bind without the is_alive test
Registry_bind_unchecked(ents, cm, T, entity, v) ==
    LET cm1 == IF get_component_manager(cm, T) = <<>>
               THEN make_component_manager(cm, T)
               ELSE cm
    IN  [managers |-> [cm1 EXCEPT ![T] = bind(cm1[T], entity, v).set],
         res |-> bind(cm1[T], entity, v).res]

\* Registry::bind that installs the store before testing is_alive
Registry_bind_store_first(ents, cm, T, entity, v) ==
    LET cm1 == IF get_component_manager(cm, T) = <<>>
               THEN make_component_manager(cm, T)
               ELSE cm
    IN  IF ~is_alive(ents, entity)
        THEN [managers |-> cm1, res |-> "DEAD_ENTITY"]
        ELSE [managers |-> [cm1 EXCEPT ![T] = bind(cm1[T], entity, v).set],
              res |-> bind(cm1[T], entity, v).res]

Registry_bind(ents, cm, T, entity, v) ==
    IF ~is_alive(ents, entity)
    THEN [managers |-> cm, res |-> "DEAD_ENTITY"]
    ELSE LET cm1 == IF get_component_manager(cm, T) = <<>>
                    THEN make_component_manager(cm, T)
                    ELSE cm
         IN  [managers |-> [cm1 EXCEPT ![T] = bind(cm1[T], entity, v).set],
              res |-> bind(cm1[T], entity, v).res]

Registry_unbind(cm, T, entity) ==
    IF get_component_manager(cm, T) /= <<>>
    THEN [managers |-> [cm EXCEPT ![T] = unbind(cm[T], entity).set],
          res |-> unbind(cm[T], entity).res,
          oob |-> unbind(cm[T], entity).oob]
    ELSE [managers |-> cm, res |-> <<>>, oob |-> FALSE]

entities_with_component(ents, cm, T) ==
    IF get_component_manager(cm, T) /= <<>>
    THEN SelectSeq(ents, LAMBDA e : has_data(cm[T], e))
    ELSE <<>>

\* has_components with the fold (has_component<List> || ...)
has_components_any(cm, List, entity) ==
    \E i \in 1 .. Len(List) : has_component(cm, List[i], entity)

\* TypeListHelper<List>::has_components: the fold (has_component<List> && ...)
has_components(cm, List, entity) ==
    \A i \in 1 .. Len(List) : has_component(cm, List[i], entity)

\* std::optional::value(): the contained value; on an empty optional it throws
\* std::bad_optional_access, recorded as BadOptionalAccess
value(opt) == IF opt /= <<>> THEN opt[1] ELSE BadOptionalAccess

\* convert_and_unwrapp that puts the entity in front of its components
convert_with_id(cm, List, entity) ==
    <<entity>> \o [i \in 1 .. Len(List) |-> value(get_component(cm, List[i], entity))]

\* TypeListHelper<List>::convert_and_unwrapp: one get_component(..).value()
\* per type of the list
convert_and_unwrapp(cm, List, entity) ==
    [i \in 1 .. Len(List) |-> value(get_component(cm, List[i], entity))]

\* get_components that builds the tuple in reverse type order
get_components_reversed(cm, List, entity) ==
    [i \in 1 .. Len(List) |-> get_component(cm, List[Len(List) + 1 - i], entity)]

\* Registry::get_components: make_tuple(get_component<Components>(entity) ...)
get_components(cm, List, entity) ==
    [i \in 1 .. Len(List) |-> get_component(cm, List[i], entity)]

\* with_components without the is_empty test
with_components_no_empty_test(ents, cm, List) ==
    SelectSeq(ents, LAMBDA e : has_components(cm, List, e))

with_components(ents, cm, List) ==
    IF List /= <<>>
    THEN SelectSeq(ents, LAMBDA e : has_components(cm, List, e))
    ELSE <<>>

\* std::set_difference, the merge over two ranges
RECURSIVE set_difference(_, _)
set_difference(a, b) ==
    IF a = <<>> THEN <<>>
    ELSE IF b = <<>> THEN a
    ELSE IF Head(a) < Head(b) THEN <<Head(a)>> \o set_difference(Tail(a), b)
    ELSE IF Head(b) < Head(a) THEN set_difference(a, Tail(b))
    ELSE set_difference(Tail(a), Tail(b))

required_entities(ents, cm, With, Without) ==
    set_difference(with_components(ents, cm, With), with_components(ents, cm, Without))

query(ents, cm, With, Without) ==
    [k \in 1 .. Len(required_entities(ents, cm, With, Without)) |->
        convert_and_unwrapp(cm, With, required_entities(ents, cm, With, Without)[k])]

\* ------------------------------------------------------------ variables
\* sparse_, dense_, data_ : a free-standing SparseSet<T>
\* current_, entities_, component_managers_ : the Registry
\* fault : the process was terminated by a memory fault
\* last  : the most recent call, its arguments (args: its type lists) and
\*         what it returned
\* ops   : number of Registry calls made so far
\* made, killed, fresh : the ids handed out and not killed since, the ids
\*         killed and not handed out again (oldest first), and the number of
\*         make_entity calls that found the free list of killed ids empty
\* list_in, list_out : the argument and the result of the most recent
\*         type-list operation
\* order : the keys the free-standing set associates, in the order in which
\*         their current associations were bound
VARIABLES sparse_, dense_, data_, current_, entities_, component_managers_,
          fault, last, ops, made, killed, fresh, list_in, list_out, order

vars == <<sparse_, dense_, data_, current_, entities_, component_managers_,
          fault, last, ops, made, killed, fresh, list_in, list_out, order>>

setVars == <<sparse_, dense_, data_>>
regVars == <<current_, entities_, component_managers_>>
histVars == <<ops, made, killed, fresh>>
typeVars == <<list_in, list_out>>

Self == [sparse |-> sparse_, dense |-> dense_, data |-> data_]

NoOp == [op |-> "none", key |-> 0, type |-> "", val |-> 0, res |-> "", out |-> <<>>,
         over |-> 0, args |-> <<>>]

EntityInputs == (0 .. (MaxEntities - 1)) \cup {MAX_ID}

Init ==
    /\ sparse_ = <<>>
    /\ dense_ = <<>>
    /\ data_ = <<>>
    /\ current_ = MAX_ID
    /\ entities_ = <<>>
    /\ component_managers_ = <<>>
    /\ fault = FALSE
    /\ last = NoOp
    /\ ops = 0
    /\ made = {}
    /\ killed = <<>>
    /\ fresh = 0
    /\ list_in = <<>>
    /\ list_out = <<>>
    /\ order = <<>>

\* the Registry after MAX_ID calls of make_entity: every id below MAX_ID is
\* alive and the free list is empty
InitFull ==
    /\ sparse_ = <<>>
    /\ dense_ = <<>>
    /\ data_ = <<>>
    /\ current_ = MAX_ID
    /\ entities_ = [i \in 1 .. MAX_ID |-> i - 1]
    /\ component_managers_ = <<>>
    /\ fault = FALSE
    /\ last = [NoOp EXCEPT !.op = "make_entity", !.out = <<MAX_ID - 1>>]
    /\ ops = 0
    /\ made = 0 .. (MAX_ID - 1)
    /\ killed = <<>>
    /\ fresh = MAX_ID
    /\ list_in = <<>>
    /\ list_out = <<>>
    /\ order = <<>>

Store(s) ==
    /\ sparse_' = s.sparse
    /\ dense_' = s.dense
    /\ data_' = s.data

Crash(op, key) ==
    /\ fault' = TRUE
    /\ last' = [NoOp EXCEPT !.op = op, !.key = key, !.res = "fault"]

\* ------------------------------------------- actions: free-standing set
\* SparseSet::bind
SetBind(key, v) ==
    /\ ~fault
    /\ UNCHANGED <<regVars, histVars, typeVars>>
    /\ LET to == overshoot(sparse_, key)
       IN  \E victim \in (IF to > 0 THEN SetVictims ELSE {"none"}) :
           \E n \in (IF victim \in {"dense", "data"} THEN 1 .. to ELSE {0}) :
               IF victim = "fault"
               THEN Crash("bind", key) /\ UNCHANGED <<setVars, order>>
               ELSE LET r == bind(Clobber(Self, victim, n), key, v)
                    IN  /\ Store(r.set)
                        /\ order' = IF r.res = "OK" /\ ~has_data(Self, key)
                                    THEN Append(order, key)
                                    ELSE order
                        /\ last' = [NoOp EXCEPT !.op = "bind", !.key = key, !.val = v,
                                                !.res = r.res, !.over = to]
                        /\ UNCHANGED fault

\* SparseSet::unbind
SetUnbind(key) ==
    /\ ~fault
    /\ UNCHANGED <<regVars, histVars, typeVars>>
    /\ LET r == unbind(Self, key)
       IN      IF r.oob
               THEN Crash("unbind", key) /\ UNCHANGED <<setVars, order>>
               ELSE /\ Store(r.set)
                    /\ order' = SelectSeq(order, LAMBDA k : k /= key)
                    /\ last' = [NoOp EXCEPT !.op = "unbind", !.key = key,
                                            !.res = "OK", !.out = r.res]
                    /\ UNCHANGED fault

\* SparseSet::bind when a vector cannot grow. resize throws whenever the key
\* is out of bounds; push_back throws only when it must reallocate, which
\* the standard allows at any size the vector has not held before, and
\* dense_ and data_ have never held more cells than sparse_ has. After a
\* throw from push_back the set is followed no further.
SetBindFail(key, v, stage) ==
    /\ ~fault
    /\ ~is_null_key(key)
    /\ UNCHANGED <<regVars, histVars, typeVars, order>>
    /\ IF stage = "sparse"
       THEN /\ out_of_bounds(Self, key)
            /\ Store(bind_failing(Self, key, v, stage))
            /\ last' = [NoOp EXCEPT !.op = "bind", !.key = key, !.val = v,
                                    !.res = "bad_alloc", !.out = <<stage>>]
            /\ UNCHANGED fault
       ELSE /\ Len(dense_) >= Len(sparse_)
            /\ LET to == overshoot(sparse_, key)
               IN  \E victim \in (IF to > 0 THEN SetVictims \ {"fault"} ELSE {"none"}) :
                   \E n \in (IF victim \in {"dense", "data"} THEN 1 .. to ELSE {0}) :
                       LET s0 == Clobber(Self, victim, n)
                       IN  /\ out_of_bounds(s0, key) \/ ~has_data(s0, key)
                           /\ Store(bind_failing(s0, key, v, stage))
                           /\ last' = [NoOp EXCEPT !.op = "bind", !.key = key,
                                                   !.val = v, !.res = "bad_alloc",
                                                   !.out = <<stage>>, !.over = to]
                           /\ fault' = TRUE

\* ------------------------------------------------- actions: the Registry
\* what the cells past the end of a store's sparse vector may belong to
NoVictim == [kind |-> "none", type |-> ""]

RegVictims(cm, T) ==
    {NoVictim, [kind |-> "fault", type |-> ""], [kind |-> "entities", type |-> ""]}
    \cup {[kind |-> k, type |-> U] : k \in {"dense", "data"}, U \in DOMAIN cm}
    \cup {[kind |-> "sparse", type |-> U] : U \in DOMAIN cm \ {T}}

RegClobber(cm, victim, n) ==
    CASE victim.kind \in {"dense", "data"} ->
             [cm EXCEPT ![victim.type] = Clobber(cm[victim.type], victim.kind, n)]
      [] victim.kind = "sparse" ->
             [cm EXCEPT ![victim.type].sparse = Smash(cm[victim.type].sparse, n, MAX_ID)]
      [] OTHER -> cm

MakeEntity ==
    /\ ~fault
    /\ ops < MaxOps
    /\ current_ = MAX_ID =>
           (Len(entities_) < MaxEntities \/ Len(entities_) \in {MAX_ID, MAX_ID + 1})
    /\ LET r == make_entity(entities_, current_)
       IN  /\ entities_' = r.entities
           /\ current_' = r.current
           /\ last' = [NoOp EXCEPT !.op = "make_entity", !.out = <<r.id>>]
           /\ made' = made \cup {r.id}
    /\ killed' = IF killed /= <<>> THEN pop_back(killed) ELSE killed
    /\ fresh' = IF killed /= <<>> THEN fresh ELSE fresh + 1
    /\ ops' = ops + 1
    /\ UNCHANGED <<setVars, component_managers_, fault, typeVars, order>>

KillEntity(entity) ==
    /\ ~fault
    /\ ops < MaxOps
    /\ ops' = ops + 1
    /\ UNCHANGED <<setVars, typeVars, order>>
    /\ LET r == kill_entity(entities_, current_, component_managers_, entity)
       IN      IF r.oob
               THEN /\ Crash("kill_entity", entity)
                    /\ UNCHANGED <<regVars, made, killed, fresh>>
               ELSE /\ entities_' = r.entities
                    /\ current_' = r.current
                    /\ component_managers_' = r.managers
                    /\ last' = [NoOp EXCEPT !.op = "kill_entity", !.key = entity,
                                            !.res = r.res]
                    /\ made' = made \ {entity}
                    /\ killed' = IF entity \in made THEN Append(killed, entity) ELSE killed
                    /\ UNCHANGED <<fault, fresh>>

\* Registry::bind<T>
Bind(T, entity, v) ==
    /\ ~fault
    /\ ops < MaxOps
    /\ ops' = ops + 1
    /\ UNCHANGED <<setVars, current_, made, killed, fresh, typeVars, order>>
    /\ LET to == IF is_alive(entities_, entity)
                 THEN IF T \in DOMAIN component_managers_
                      THEN overshoot(component_managers_[T].sparse, entity)
                      ELSE overshoot(<<>>, entity)
                 ELSE 0
       IN  \E victim \in (IF to > 0 THEN RegVictims(component_managers_, T)
                                    ELSE {NoVictim}) :
           \E n \in (IF victim.kind \in {"none", "fault"} THEN {0} ELSE 1 .. to) :
               IF victim.kind = "fault"
               THEN /\ Crash("bind", entity)
                    /\ UNCHANGED <<entities_, component_managers_>>
               ELSE LET r == Registry_bind(entities_,
                                           RegClobber(component_managers_, victim, n),
                                           T, entity, v)
                    IN  /\ component_managers_' = r.managers
                        /\ entities_' = IF victim.kind = "entities"
                                        THEN Smash(entities_, n, MAX_ID)
                                        ELSE entities_
                        /\ last' = [NoOp EXCEPT !.op = "bind", !.key = entity,
                                                !.type = T, !.val = v, !.res = r.res,
                                                !.over = to]
                        /\ UNCHANGED fault

\* Registry::unbind<T>
Unbind(T, entity) ==
    /\ ~fault
    /\ ops < MaxOps
    /\ ops' = ops + 1
    /\ UNCHANGED <<setVars, current_, entities_, made, killed, fresh, typeVars, order>>
    /\ LET r == Registry_unbind(component_managers_, T, entity)
       IN      IF r.oob
               THEN Crash("unbind", entity) /\ UNCHANGED component_managers_
               ELSE /\ component_managers_' = r.managers
                    /\ last' = [NoOp EXCEPT !.op = "unbind", !.key = entity,
                                            !.type = T, !.res = "OK", !.out = r.res]
                    /\ UNCHANGED fault

\* ------------------------------------- actions: the const operations
\* a const member function: the call and its result are recorded, no member
\* of the Registry is assigned
ReadOp(op, T, entity, args, out) ==
    /\ ~fault
    /\ ops < MaxOps
    /\ ops' = ops + 1
    /\ last' = [NoOp EXCEPT !.op = op, !.type = T, !.key = entity, !.args = args,
                            !.res = "OK", !.out = out]
    /\ UNCHANGED <<setVars, regVars, made, killed, fresh, fault, typeVars, order>>

IsAlive(entity) ==
    ReadOp("is_alive", "", entity, <<>>, <<is_alive(entities_, entity)>>)

\* has_component that looks the store up with component_managers_[type_name],
\* which installs an entry for a type that has none
HasComponent_subscript(T, entity) ==
    /\ ~fault
    /\ ops < MaxOps
    /\ ops' = ops + 1
    /\ last' = [NoOp EXCEPT !.op = "has_component", !.type = T, !.key = entity,
                            !.res = "OK",
                            !.out = <<has_component(component_managers_, T, entity)>>]
    /\ component_managers_' = IF T \in DOMAIN component_managers_
                              THEN component_managers_
                              ELSE make_component_manager(component_managers_, T)
    /\ UNCHANGED <<setVars, current_, entities_, made, killed, fresh, fault,
                   typeVars, order>>

HasComponent(T, entity) ==
    ReadOp("has_component", T, entity, <<>>,
           <<has_component(component_managers_, T, entity)>>)

GetComponent(T, entity) ==
    ReadOp("get_component", T, entity, <<>>,
           get_component(component_managers_, T, entity))

EntitiesWithComponent(T) ==
    ReadOp("entities_with_component", T, 0, <<>>,
           entities_with_component(entities_, component_managers_, T))

GetComponents(List, entity) ==
    ReadOp("get_components", "", entity, <<List>>,
           get_components(component_managers_, List, entity))

Query(With, Without) ==
    ReadOp("query", "", 0, <<With, Without>>,
           query(entities_, component_managers_, With, Without))

\* ------------------------------------------------ actions: type lists
\* the type lists given to the operations: up to MaxList types, repeats allowed
ListInputs == UNION {[1 .. n -> Types] : n \in 0 .. MaxList}

TypeOp(op, MetaFun, List, result) ==
    /\ list_in' = List
    /\ list_out' = result
    /\ last' = [NoOp EXCEPT !.op = op, !.type = MetaFun]
    /\ UNCHANGED <<setVars, regVars, histVars, fault, order>>

Reverse == \E List \in ListInputs : TypeOp("reverse", "", List, reverse(List))

PopBack == \E List \in ListInputs : TypeOp("pop_back", "", List, typing_pop_back(List))

Transform(MetaFun) ==
    \E List \in ListInputs : TypeOp("transform", MetaFun, List, transform(List, MetaFun))

\* -------------------------------------------------------- specifications
\* the Registry
Next ==
    \/ MakeEntity
    \/ \E entity \in EntityInputs : KillEntity(entity)
    \/ \E T \in Types, entity \in EntityInputs, v \in Comps : Bind(T, entity, v)
    \/ \E T \in Types, entity \in EntityInputs : Unbind(T, entity)

Spec == Init /\ [][Next]_vars

\* the type_list_t arguments of get_components and query: one list of
\* distinct component types per set of types
QueryLists == {CHOOSE l \in ListInputs : Range(l) = S /\ Len(l) = Cardinality(S) :
                  S \in SUBSET Types}

\* the Registry with its const operations
NextRead ==
    \/ Next
    \/ \E entity \in EntityInputs : IsAlive(entity)
    \/ \E T \in Types, entity \in EntityInputs : HasComponent(T, entity)
    \/ \E T \in Types, entity \in EntityInputs : GetComponent(T, entity)
    \/ \E T \in Types : EntitiesWithComponent(T)
    \/ \E List \in QueryLists, entity \in EntityInputs : GetComponents(List, entity)
    \/ \E With \in QueryLists, Without \in QueryLists : Query(With, Without)

ReadSpec == Init /\ [][NextRead]_vars

\* one free-standing SparseSet
NextSet ==
    \/ \E key \in KeyInputs, v \in Vals : SetBind(key, v)
    \/ \E key \in KeyInputs : SetUnbind(key)

SetSpec == Init /\ [][NextSet]_vars

\* one free-standing SparseSet whose vectors may fail to grow
Stages == {"sparse", "dense", "data"}

NextGrowth ==
    \/ NextSet
    \/ \E key \in Keys, v \in Vals, stage \in Stages : SetBindFail(key, v, stage)

GrowthSpec == Init /\ [][NextGrowth]_vars

\* the entity allocator alone: make_entity and kill_entity
NextAlloc ==
    \/ MakeEntity
    \/ \E entity \in EntityInputs : KillEntity(entity)

AllocSpec == Init /\ [][NextAlloc]_vars

\* the entity allocator once the id space is used up
ExhaustSpec == InitFull /\ [][NextAlloc]_vars

\* the compile-time type-list operations
NextTyping ==
    \/ Reverse
    \/ PopBack
    \/ \E MetaFun \in MetaFuns : Transform(MetaFun)

TypingSpec == Init /\ [][NextTyping]_vars

\* ---------------------------------------------------------------- claims
\* the two directions of the sparse/dense correspondence
SetBijection(s) ==
    /\ \A i \in 0 .. (Len(s.dense) - 1) :
           InRange(s.sparse, At(s.dense, i)) /\ At(s.sparse, At(s.dense, i)) = i
    /\ \A k \in 0 .. (Len(s.sparse) - 1) :
           At(s.sparse, k) /= NULL_ID =>
               InRange(s.dense, At(s.sparse, k)) /\ At(s.dense, At(s.sparse, k)) = k

\* C1: after every bind(e, v) / unbind(e) on one SparseSet with e /= NULL_ID,
\* sparse[dense[i]] = i for every i < len(dense), and dense[sparse[k]] = k for
\* every id k with sparse[k] /= NULL_ID.
C1_Bijection ==
    (last.op \in {"bind", "unbind"} /\ last.res /= "fault") => SetBijection(Self)

\* C9: SparseSet bind(key, args) returns INVALID_KEY exactly when key = NULL_ID
\* and succeeds for every other key; on INVALID_KEY sparse, dense and data are
\* unchanged; has(NULL_ID) is false and get(NULL_ID) is absent in every
\* reachable state.
C9_InvalidKey ==
    /\ [](/\ (last.op = "bind" /\ last.res /= "fault") =>
                 /\ last.res = "INVALID_KEY" <=> last.key = NULL_ID
                 /\ last.res = "OK" <=> last.key /= NULL_ID
          /\ ~has_data(Self, NULL_ID)
          /\ get_data(Self, NULL_ID) = <<>>)
    /\ [][(last'.op = "bind" /\ last'.res = "INVALID_KEY") => UNCHANGED setVars]_vars

C9_Witness ==
    /\ last.op = "bind" /\ last.key = NULL_ID /\ last.res = "INVALID_KEY"
    /\ Len(dense_) = 2

\* C10: for every reachable SparseSet state, key e /= NULL_ID and value v:
\* after bind(e, v), get(e) returns v; unbind(e) then returns v and afterwards
\* has(e) is false.
C10_RoundTrip ==
    /\ []((last.op = "bind" /\ last.res = "OK") =>
              get_data(Self, last.key) = <<last.val>>)
    /\ [][(/\ last.op = "bind" /\ last.res = "OK"
           /\ last'.op = "unbind" /\ last'.key = last.key /\ last'.res = "OK")
          => (last'.out = <<last.val>> /\ ~has_data(Self', last.key))]_vars

C10_Witness ==
    /\ last.op = "unbind" /\ last.out = <<2>> /\ last.key = 0
    /\ Len(dense_) = 1 /\ ~has_data(Self, 0)

\* the type_list_t arguments of a query: lists of distinct component types
TypeLists ==
    {<<>>} \cup {<<a>> : a \in Types}
    \cup {l \in [1 .. 2 -> Types] : Cardinality(Range(l)) = 2}
    \cup {l \in [1 .. 3 -> Types] : Cardinality(Range(l)) = 3}

Ascending(v) == \A i \in 1 .. Len(v), j \in 1 .. Len(v) : i < j => v[i] < v[j]

Qualifying(With, Without) ==
    {e \in 0 .. MAX_ID :
        /\ is_alive(entities_, e)
        /\ \A T \in Range(With) : has_component(component_managers_, T, e)
        /\ \A T \in Range(Without) : ~has_component(component_managers_, T, e)}

\* one list per set of component types (the selected ids do not depend on
\* the order of the types in a list)
CanonLists == {CHOOSE l \in TypeLists : Range(l) = S : S \in SUBSET Types}

\* C2: in every reachable registry state, for every non-empty must-have list W
\* and every must-not-have list B (disjoint from W), the ids selected by
\* query(W, B) are exactly the live entities that have every type of W and
\* none of the types of B.
C2_QueryMembership ==
    \A With \in CanonLists \ {<<>>}, Without \in CanonLists :
        Range(With) \cap Range(Without) = {} =>
            Range(required_entities(entities_, component_managers_, With, Without))
                = Qualifying(With, Without)

C4_KillPurges ==
    (last.op = "kill_entity" /\ last.res = "killed") =>
        /\ ~is_alive(entities_, last.key)
        /\ \A T \in Types :
               /\ ~has_component(component_managers_, T, last.key)
               /\ get_component(component_managers_, T, last.key) = <<>>

C4_Witness ==
    /\ last.op = "kill_entity" /\ last.res = "killed" /\ last.key = 1
    /\ DOMAIN component_managers_ = {"A", "B"}
    /\ Len(component_managers_["A"].sparse) = 2
    /\ Len(component_managers_["B"].sparse) = 2

\* C5: make_entity returns the most recently killed entity that has not been
\* handed out again (kills k1 .. kn are returned as kn .. k1); when there is
\* none it returns fresh ids in ascending order 0, 1, 2, ...
C5_RecycleLIFO ==
    [][last'.op = "make_entity" =>
           last'.out = <<IF killed /= <<>> THEN killed[Len(killed)] ELSE fresh>>]_vars

C5_Witness ==
    /\ last.op = "make_entity" /\ last.out = <<1>>
    /\ killed = <<0>> /\ fresh = 2 /\ current_ = 0

\* C6: for every interleaving of make_entity and kill_entity the ids e with
\* is_alive(e) are the ids returned by make_entity and not killed since.
C6_Liveness ==
    {e \in 0 .. MAX_ID : is_alive(entities_, e)} = made

C6_Witness ==
    /\ made = {0, 2} /\ killed = <<1>> /\ fresh = 3
    /\ last.op = "make_entity" /\ last.out = <<0>>

\* C7: Registry bind<T>(e, args) on an entity that is not alive returns
\* DEAD_ENTITY and changes nothing: no store is created, no association is
\* recorded, the entity array and the free-list head are unchanged.
C7_BindDeadEntity ==
    [][(last'.op = "bind" /\ last'.res /= "fault" /\ ~is_alive(entities_, last'.key)) =>
           (last'.res = "DEAD_ENTITY" /\ UNCHANGED regVars)]_vars

C7_Witness ==
    /\ last.op = "bind" /\ last.res = "DEAD_ENTITY" /\ last.key = 0
    /\ killed = <<0>>
    /\ DOMAIN component_managers_ = {"A"}
    /\ ~has_component(component_managers_, "A", 0)

\* C8: Registry bind<T>(NULL_ID, args) returns BindError INVALID_KEY.
C8_BindNullEntity ==
    (last.op = "bind" /\ last.key = NULL_ID) => last.res = "INVALID_KEY"

\* C11: binding a key that already has a value replaces the value (get(e) is
\* the new value after the second bind) while len(dense), the position of e in
\* dense and sparse[e] are the same before and after the second bind.
C11_RebindOverwrites ==
    [][(last'.op = "bind" /\ last'.res = "OK" /\ has_data(Self, last'.key)) =>
           /\ get_data(Self', last'.key) = <<last'.val>>
           /\ Len(dense_') = Len(dense_)
           /\ dense_' = dense_
           /\ At(sparse_', last'.key) = At(sparse_, last'.key)]_vars

\* key 0 was bound before key 1 (it sits first in dense) and is bound again
C11_Witness ==
    /\ last.op = "bind" /\ last.res = "OK" /\ last.key = 0 /\ last.val = 2
    /\ dense_ = <<0, 1>> /\ data_ = <<2, 1>> /\ sparse_ = <<0, 1>>

\* C12: unbind(e) on a key with no mapping (never bound, outside the sparse
\* vector, already unbound, or with no store for T in the registry) returns
\* absent and leaves every store, the entity array and the free-list head
\* unchanged; of two consecutive unbind(e) the second returns absent.
C12_AbsentUnbind ==
    /\ [][(/\ last'.op = "unbind" /\ last'.res /= "fault"
           /\ ~has_component(component_managers_, last'.type, last'.key))
          => (last'.out = <<>> /\ UNCHANGED regVars)]_vars
    /\ [][(/\ last.op = "unbind" /\ last.res /= "fault"
           /\ last'.op = "unbind" /\ last'.res /= "fault"
           /\ last'.key = last.key /\ last'.type = last.type)
          => last'.out = <<>>]_vars

\* make_entity, bind<A>(0), unbind<A>(0), unbind<A>(0): the second unbind
C12_Witness ==
    /\ last.op = "unbind" /\ last.key = 0 /\ last.type = "A" /\ last.out = <<>>
    /\ ops = 4 /\ made = {0} /\ fresh = 1 /\ killed = <<>>
    /\ DOMAIN component_managers_ = {"A"}
    /\ component_managers_["A"] = [sparse |-> <<MAX_ID>>, dense |-> <<>>, data |-> <<>>]

\* C13: in every reachable state is_alive(NULL_ID) is false and make_entity
\* never returns NULL_ID; when the entity array already holds NULL_ID ids and
\* the free list is empty, make_entity allocates nothing.
C13_NullNeverAlive ==
    /\ [](/\ ~is_alive(entities_, NULL_ID)
          /\ (last.op = "make_entity" => last.out /= <<NULL_ID>>))
    /\ [][(last'.op = "make_entity" /\ current_ = MAX_ID /\ Len(entities_) = NULL_ID)
          => UNCHANGED <<entities_, current_>>]_vars

C16_KillDeadNoOp ==
    [][(/\ last'.op = "kill_entity" /\ last'.res /= "fault"
        /\ ~is_alive(entities_, last'.key))
       => (last'.res = "ignored" /\ UNCHANGED regVars)]_vars

\* entity 0 is killed a second time while entity 1 holds a component
C16_Witness ==
    /\ last.op = "kill_entity" /\ last.res = "ignored" /\ last.key = 0
    /\ killed = <<0>> /\ current_ = 0 /\ entities_ = <<MAX_ID, 1>>
    /\ has_component(component_managers_, "A", 1)

\* C17: query with an empty must-have list returns the empty sequence in every
\* registry state and for every must-not-have list.
C17_EmptyWith ==
    \A Without \in TypeLists :
        query(entities_, component_managers_, <<>>, Without) = <<>>

\* two live entities hold A, so the queries with a must-have type are not empty
C17_Witness ==
    /\ query(entities_, component_managers_, <<>>, <<>>) = <<>>
    /\ query(entities_, component_managers_, <<>>, <<"B">>) = <<>>
    /\ Len(query(entities_, component_managers_, <<"A">>, <<>>)) = 2
    /\ Len(query(entities_, component_managers_, <<"A">>, <<"B">>)) = 1

KthSmallest(S, k) == CHOOSE e \in S : Cardinality({x \in S : x < e}) = k - 1

\* C19: the k-th tuple of query(W, B) belongs to the k-th smallest qualifying
\* entity (alive, holding every type of W and none of B): there is one tuple
\* per qualifying entity, and its component for each T_i of W, in the order of
\* W, is the value get<T_i>(id) returns for that entity.
C19_QueryProjection ==
    \A With \in TypeLists \ {<<>>}, Without \in CanonLists :
        Range(With) \cap Range(Without) = {} =>
            LET res == query(entities_, component_managers_, With, Without)
                ids == Qualifying(With, Without)
            IN  /\ Len(res) = Cardinality(ids)
                /\ \A k \in 1 .. Len(res) :
                       \A i \in 1 .. Len(With) :
                           <<res[k][i]>> = get_component(component_managers_, With[i],
                                                         KthSmallest(ids, k))

\* C20: get_all<T1, ..., Tn>(e) is the tuple whose i-th entry is get<Ti>(e), in
\* the requested type order: absent when e has no Ti, otherwise the value
\* stored for e in the Ti store; it is the empty tuple for n = 0.
C20_GetAll ==
    \A List \in TypeLists, e \in EntityInputs :
        LET r == get_components(component_managers_, List, e)
        IN  /\ Len(r) = Len(List)
            /\ (List = <<>> => r = <<>>)
            /\ \A i \in 1 .. Len(List) :
                   IF has_component(component_managers_, List[i], e)
                   THEN r[i] = <<At(component_managers_[List[i]].data,
                                    At(component_managers_[List[i]].sparse, e))>>
                   ELSE r[i] = <<>>

\* entity 1 holds B and not A: the tuple is (absent, present) in list order
C20_Witness ==
    /\ get_components(component_managers_, <<"A", "B">>, 1) = << <<>>, <<1>> >>
    /\ get_components(component_managers_, <<"B", "A">>, 1) = << <<1>>, <<>> >>
    /\ get_components(component_managers_, <<>>, 1) = <<>>
    /\ has_component(component_managers_, "A", 0)

\* C21: has<T>(e) is false whenever no store for T exists; a successful
\* bind<T>(e) makes it true, unbind<T>(e) and kill_entity(e) make it false, and
\* no other call changes it; has<T>(e) holds iff get<T>(e) is present.
C21_HasSemantics ==
    /\ [](\A T \in Types, e \in 0 .. MAX_ID :
              /\ T \notin DOMAIN component_managers_ =>
                     ~has_component(component_managers_, T, e)
              /\ has_component(component_managers_, T, e)
                     <=> get_component(component_managers_, T, e) /= <<>>)
    /\ [][last'.res /= "fault" =>
              \A T \in Types, e \in 0 .. MAX_ID :
                  has_component(component_managers_', T, e) =
                      IF last'.op = "bind" /\ last'.res = "OK"
                         /\ last'.type = T /\ last'.key = e
                      THEN TRUE
                      ELSE IF \/ last'.op = "unbind" /\ last'.type = T /\ last'.key = e
                              \/ last'.op = "kill_entity" /\ last'.key = e
                           THEN FALSE
                           ELSE has_component(component_managers_, T, e)]_vars

\* C22: a store for T exists iff some bind<T> on a live entity has been
\* executed: only such a bind adds a store (the one for T), no other call adds
\* one, and no call removes one, also when every component of the type has
\* been unbound.
C22_LazyStores ==
    /\ [][last'.res /= "fault" =>
              DOMAIN component_managers_' =
                  DOMAIN component_managers_ \cup
                      (IF last'.op = "bind" /\ is_alive(entities_, last'.key)
                       THEN {last'.type} ELSE {})]_vars
    /\ []((ops = 0) => DOMAIN component_managers_ = {})

\* the A store outlives its only component; no B store after a dead bind<B>
C22_Witness ==
    /\ DOMAIN component_managers_ = {"A"}
    /\ component_managers_["A"] = [sparse |-> <<MAX_ID>>, dense |-> <<>>, data |-> <<>>]
    /\ last.op = "bind" /\ last.type = "B" /\ last.res = "DEAD_ENTITY"
    /\ killed = <<0>>

\* C23: when bind(key, ...) is called with key /= NULL_ID and
\* key >= len(sparse), afterwards len(sparse) = key + 1, every newly added
\* cell other than sparse[key] is NULL_ID, and the old cells are as before,
\* whatever the gap between the old length and key.
C23_SparseGrowth ==
    [][(last'.op = "bind" /\ last'.res = "OK" /\ last'.key >= Len(sparse_)) =>
           /\ Len(sparse_') = last'.key + 1
           /\ \A i \in 0 .. (last'.key - 1) :
                  At(sparse_', i) = IF i < Len(sparse_) THEN At(sparse_, i) ELSE NULL_ID
           /\ At(sparse_', last'.key) = Len(dense_') - 1]_vars

\* key 2 is bound on a set whose sparse vector has one cell: a gap of one
C23_Witness ==
    /\ last.op = "bind" /\ last.res = "OK" /\ last.key = 2 /\ last.over = 1
    /\ sparse_ = <<0, MAX_ID, 1>>
    /\ dense_ = <<0, 2>>

\* C24: when the free list is empty (head = NULL_ID), make_entity returns
\* id = len(entities), appends it so that entities[id] = id, and leaves every
\* other slot and the head unchanged; a new registry yields 0, 1, 2, ...
C24_FreshAllocation ==
    /\ [][(last'.op = "make_entity" /\ current_ = NULL_ID) =>
              /\ last'.out = <<Len(entities_)>>
              /\ entities_' = Append(entities_, Len(entities_))
              /\ At(entities_', Len(entities_)) = Len(entities_)
              /\ current_' = NULL_ID]_vars
    /\ []((last.op = "make_entity" /\ fresh = ops) =>
              /\ last.out = <<ops - 1>>
              /\ entities_ = [i \in 1 .. ops |-> i - 1])

\* a fresh id is allocated after entity 0 was killed and handed out again
C24_Witness ==
    /\ last.op = "make_entity" /\ last.out = <<2>>
    /\ ops = 5 /\ fresh = 3 /\ killed = <<>>
    /\ entities_ = <<0, 1, 2>> /\ current_ = NULL_ID

\* C25: pop_back on a type list returns the list without its last element,
\* the remaining elements in their order, and the empty list for an empty or
\* single-element list.
C25_PopBack ==
    (last.op = "pop_back") =>
        /\ Len(list_in) <= 1 => list_out = <<>>
        /\ Len(list_in) >= 1 => Len(list_out) = Len(list_in) - 1
        /\ \A i \in 1 .. Len(list_out) : list_out[i] = list_in[i]

C25_Witness ==
    /\ last.op = "pop_back"
    /\ list_in = <<"A", "B", "C">>
    /\ list_out = <<"A", "B">>

RECURSIVE ChainFrom(_, _, _)
ChainFrom(ents, h, n) ==
    IF n = 0 \/ ~InRange(ents, h) THEN <<>>
    ELSE <<h>> \o ChainFrom(ents, At(ents, h), n - 1)

DeadSlots(ents) == {e \in 0 .. (Len(ents) - 1) : At(ents, e) /= e}

\* C27: in every reachable state every index e < len(entities) is either alive
\* or on the free chain that starts at head, never both; the chain goes
\* through dead slots only, has no cycle, ends in NULL_ID, and has as many
\* slots as there are dead slots; head is NULL_ID or the index of a dead slot.
C27_AllocatorInvariant ==
    LET chain == ChainFrom(entities_, current_, Len(entities_) + 1)
        dead  == DeadSlots(entities_)
    IN  /\ current_ = NULL_ID \/ current_ \in dead
        /\ Range(chain) = dead
        /\ Len(chain) = Cardinality(dead)
        /\ \A i \in 1 .. Len(chain) : ~is_alive(entities_, chain[i])
        /\ chain /= <<>> => At(entities_, chain[Len(chain)]) = NULL_ID
        /\ chain = <<>> => current_ = NULL_ID

\* C28: in every state reachable through registry operations every id in a
\* store's dense array is a live entity, and has<T>(id) is false for every T
\* and every id that is not alive; unbind<T> on a dead entity returns absent.
C28_DeadHoldNothing ==
    /\ [](\A T \in DOMAIN component_managers_ :
              /\ \A i \in 1 .. Len(component_managers_[T].dense) :
                     is_alive(entities_, component_managers_[T].dense[i])
              /\ \A e \in 0 .. MAX_ID :
                     ~is_alive(entities_, e) => ~has_component(component_managers_, T, e))
    /\ [][(/\ last'.op = "unbind" /\ last'.res /= "fault"
           /\ ~is_alive(entities_, last'.key)) => last'.out = <<>>]_vars

\* C29: during any bind(key, ...) with key /= NULL_ID every cell written in
\* sparse has an index below len(sparse) after the resize, that is at most
\* key: the fill, which runs over the cells old length .. key + to, writes no
\* cell past the end, also when key is more than one past the old length.
C29_GrowthInBounds ==
    [][(last'.op = "bind" /\ last'.key /= NULL_ID /\ last'.key >= Len(sparse_)) =>
           last'.key + overshoot(sparse_, last'.key) <= last'.key]_vars

\* C30: when the growth of sparse, dense or data fails during bind, the set
\* is left exactly as before the call: sparse, dense and data are unchanged,
\* has(key) answers as before, and the sparse-set invariants still hold.
C30_NoPartialMutation ==
    [][(last'.op = "bind" /\ last'.res = "bad_alloc") =>
           /\ UNCHANGED setVars
           /\ has_data(Self', last'.key) = has_data(Self, last'.key)
           /\ (SetBijection(Self) => SetBijection(Self'))]_vars

\* C31: after unbind<T>(e) or kill_entity(e) that returns, for every entity
\* e2 /= e and every type U, has<U>(e2) and get<U>(e2) are what they were
\* before the call, although the swap-remove moves the last element of the
\* store.
C31_RemovalFrame ==
    [][(last'.op \in {"unbind", "kill_entity"} /\ last'.res /= "fault") =>
           \A e2 \in EntityInputs \ {last'.key}, U \in Types :
               /\ has_component(component_managers_', U, e2)
                      = has_component(component_managers_, U, e2)
               /\ get_component(component_managers_', U, e2)
                      = get_component(component_managers_, U, e2)]_vars

\* C32: a successful bind<T>(e, v) changes only the (T, e) association: the
\* entity array and the free-list head (so the liveness of every entity),
\* every store of a type U /= T, and has<T>(e2) and get<T>(e2) of every
\* e2 /= e are what they were before the call.
C32_BindFrame ==
    [][(last'.op = "bind" /\ last'.res = "OK") =>
           /\ entities_' = entities_
           /\ current_' = current_
           /\ \A U \in Types \ {last'.type} :
                  get_component_manager(component_managers_', U)
                      = get_component_manager(component_managers_, U)
           /\ \A e2 \in EntityInputs \ {last'.key} :
                  /\ has_component(component_managers_', last'.type, e2)
                         = has_component(component_managers_, last'.type, e2)
                  /\ get_component(component_managers_', last'.type, e2)
                         = get_component(component_managers_, last'.type, e2)]_vars

\* C33: unbind(key) of a key that has data, with i = sparse[key], leaves dense
\* and data one element shorter, position i holding the former last element
\* (id and value) and every other position unchanged, sparse[former last] = i
\* and sparse[key] = NULL_ID; when i is the last position the element is
\* popped and sparse[key] is NULL_ID all the same.
C33_SwapRemove ==
    [][(last'.op = "unbind" /\ last'.res /= "fault" /\ has_data(Self, last'.key)) =>
           LET key == last'.key
               i   == At(sparse_, key)
               n   == Len(dense_)
           IN  /\ Len(dense_') = n - 1
               /\ Len(data_') = Len(data_) - 1
               /\ \A j \in 0 .. (n - 2) :
                      /\ At(dense_', j) = IF j = i THEN dense_[n] ELSE At(dense_, j)
                      /\ At(data_', j) = IF j = i THEN data_[n] ELSE At(data_, j)
               /\ i < n - 1 => At(sparse_', dense_[n]) = i
               /\ At(sparse_', key) = NULL_ID]_vars

\* of the keys bound in the order 0, 1, 2 key 0 was unbound: key 2, the last
\* element, now stands at position 0 in front of key 1
C33_Witness ==
    /\ last.op = "unbind" /\ last.key = 0 /\ last.out /= <<>>
    /\ order = <<1, 2>>
    /\ dense_ = <<2, 1>>
    /\ sparse_ = <<NULL_ID, 1, 0>>

\* C34 as stated: after any sequence of bind/unbind the ids in dense appear
\* in the order in which their current associations were first bound.
C34_InsertionOrder ==
    (last.op \in {"bind", "unbind"} /\ last.res /= "fault") => dense_ = order

\* C34: dense is in insertion order only up to the first removal: bind of a
\* key without data appends the key as the last element of dense and bind of
\* a key with data leaves the length of dense alone, while unbind(key) of a
\* key in front of the last position puts the last id of dense at key's
\* position, and when dense was in insertion order and at least two ids
\* stood behind key it no longer is.
C34_AppendAndSwap ==
    [][/\ (last'.op = "bind" /\ last'.res = "OK") =>
              IF has_data(Self, last'.key)
              THEN Len(dense_') = Len(dense_)
              ELSE /\ Len(dense_') = Len(dense_) + 1
                   /\ dense_'[Len(dense_')] = last'.key
       /\ (last'.op = "unbind" /\ last'.res /= "fault" /\ has_data(Self, last'.key)
               /\ At(sparse_, last'.key) < Len(dense_) - 1) =>
              /\ At(dense_', At(sparse_, last'.key)) = dense_[Len(dense_)]
              /\ (dense_ = order /\ At(sparse_, last'.key) < Len(dense_) - 2) =>
                     dense_' /= order']_vars

\* keys 0 and 2 are associated, 0 bound before 2, and dense holds 2 before 0
C34_Witness ==
    /\ last.op = "unbind" /\ last.key = 1 /\ last.out /= <<>>
    /\ order = <<0, 2>>
    /\ dense_ = <<2, 0>>

ReadOps ==
    {"is_alive", "has_component", "get_component", "entities_with_component",
     "get_components", "query"}

C36_QueryNeverAborts ==
    \A With \in QueryLists, Without \in QueryLists :
        LET result == query(entities_, component_managers_, With, Without)
        IN  \A k \in 1 .. Len(result) :
                /\ Len(result[k]) = Len(With)
                /\ \A i \in 1 .. Len(With) :
                       /\ get_component(component_managers_, With[i],
                              required_entities(entities_, component_managers_,
                                                With, Without)[k]) /= <<>>
                       /\ result[k][i] /= BadOptionalAccess

\* query<A, B> builds a tuple of two components for one entity, while
\* another entity has only the A component
C36_Witness ==
    /\ Len(query(entities_, component_managers_, <<"A", "B">>, <<>>)) = 1
    /\ Len(query(entities_, component_managers_, <<"A">>, <<>>)) = 2
    /\ ~fault

\* C37: make_entity never hands out an id that is already alive, also after
\* more than 2^W - 1 creations without kills, when len(entities) no longer
\* fits the W-bit id type: the id returned was not alive immediately before
\* the call.
C37_NeverAliveId ==
    [][last'.op = "make_entity" => ~is_alive(entities_, last'.out[1])]_vars

\* C38: in every reachable state of a sparse set len(dense) = len(data), no
\* id appears twice in dense, NULL_ID never appears in dense, every dense id
\* is below len(sparse), and the number of sparse cells different from
\* NULL_ID equals len(dense).
C38_WellFormed ==
    ~fault =>
        /\ Len(dense_) = Len(data_)
        /\ \A i \in 1 .. Len(dense_), j \in 1 .. Len(dense_) :
               i /= j => dense_[i] /= dense_[j]
        /\ \A i \in 1 .. Len(dense_) : dense_[i] /= NULL_ID /\ dense_[i] < Len(sparse_)
        /\ Cardinality({k \in 1 .. Len(sparse_) : sparse_[k] /= NULL_ID}) = Len(dense_)

====
